---- MODULE Spec2Model ----
(***************************************************************************)
(* Kirby Snippet Opener: the snippet regular expression, its scan of a     *)
(* document (provideDocumentLinks) and the commands of the extension.      *)
(* A text is a sequence of one-character strings; offsets are 0-based as   *)
(* in JavaScript, so the character at offset i of a text t is t[i + 1].    *)
(***************************************************************************)
EXTENDS Integers, Sequences, FiniteSets, TLC

(***************************************************************************)
(* Characters and character classes of the regular expression              *)
(*   /snippet\(\s*(['"])([^'"]+)\1[\s\S]*?\)/g                             *)
(***************************************************************************)
SQ == "'"
DQ == "\""
NL == "\n"

\* ['"]
QuoteClass == {SQ, DQ}

\* \s
IsSpace(c) == c \in {" ", NL, "\t"}

\* snippet\(
SnippetLiteral == <<"s", "n", "i", "p", "p", "e", "t", "(">>

\* the literal part matches at offset p
LiteralAt(text, p) ==
  /\ p + Len(SnippetLiteral) <= Len(text)
  /\ \A k \in 1..Len(SnippetLiteral) : text[p + k] = SnippetLiteral[k]

\* \s* : the repetition counts the engine can take at offset i
RECURSIVE SpaceRun(_, _)
SpaceRun(text, i) ==
  IF i < Len(text) /\ IsSpace(text[i + 1]) THEN 1 + SpaceRun(text, i + 1) ELSE 0

SpaceCountsNone(text, i) == {0}

SpaceCounts(text, i) == 0..SpaceRun(text, i)

\* (['"]) : group 1 opens at offset q
OpenQuoteAt(text, q) == q < Len(text) /\ text[q + 1] \in QuoteClass

\* [^'"]
IsNameChar(c) == c \notin QuoteClass

RECURSIVE NameRun(_, _)
NameRun(text, i) ==
  IF i < Len(text) /\ IsNameChar(text[i + 1]) THEN 1 + NameRun(text, i + 1) ELSE 0

\* ([^'"]+) : the repetition counts the engine can take at offset i
NameCounts(text, i) == 1..NameRun(text, i)

\* \1 : the character at offset c is the one group 1 captured at offset q
BackrefAnyQuote(text, c, q) == c < Len(text) /\ text[c + 1] \in QuoteClass

BackrefAt(text, c, q) == c < Len(text) /\ text[c + 1] = text[q + 1]

\* [\s\S]*? : the repetition counts the engine can take at offset i
RestCounts(text, i) == 0..(Len(text) - i)

\* \)
CloseParenAt(text, i) == i < Len(text) /\ text[i + 1] = ")"

\* Every way the pattern matches at offset p: <<w, n, r>> are the repetition
\* counts of \s*, [^'"]+ and [\s\S]*?.
Attempts(text, p) ==
  IF ~LiteralAt(text, p) THEN {}
  ELSE LET a == p + Len(SnippetLiteral)
       IN {t \in UNION {UNION {{<<w, n, r>> : r \in RestCounts(text, a + w + 1 + n + 1)}
                               : n \in NameCounts(text, a + w + 1)}
                        : w \in {w \in SpaceCounts(text, a) : OpenQuoteAt(text, a + w)}} :
             /\ BackrefAt(text, a + t[1] + 1 + t[2], a + t[1])
             /\ CloseParenAt(text, a + t[1] + 1 + t[2] + 1 + t[3])}

\* The backtracking engine tries \s* and [^'"]+ longest first and [\s\S]*?
\* shortest first: attempt s is tried before attempt t.
TriedBeforeGreedyRest(s, t) ==
  \/ s[1] > t[1]
  \/ s[1] = t[1] /\ s[2] > t[2]
  \/ s[1] = t[1] /\ s[2] = t[2] /\ s[3] > t[3]

TriedBefore(s, t) ==
  \/ s[1] > t[1]
  \/ s[1] = t[1] /\ s[2] > t[2]
  \/ s[1] = t[1] /\ s[2] = t[2] /\ s[3] < t[3]

\* exec's null
Null == [index |-> -1, last |-> -1, g0 |-> <<>>, g1 |-> "", g2 |-> <<>>]

\* The match at offset p (index, match[0], match[1], match[2]; last is the
\* offset after the match), or Null.
MatchAt(text, p) ==
  LET A == Attempts(text, p)
  IN IF A = {} THEN Null
     ELSE LET t == CHOOSE t \in A : \A s \in A : s = t \/ TriedBefore(t, s)
              q == p + Len(SnippetLiteral) + t[1]
              e == q + 1 + t[2] + 1 + t[3] + 1
          IN [index |-> p, last |-> e, g0 |-> SubSeq(text, p + 1, e),
              g1 |-> text[q + 1], g2 |-> SubSeq(text, q + 2, q + 1 + t[2])]

\* RegExp.prototype.exec of a global regular expression whose lastIndex is
\* li: the leftmost match at or after li; lastIndex becomes the offset after
\* the match, or 0 when there is none.
execNotGlobal(text, li) ==
  LET P == {p \in 0..Len(text) : MatchAt(text, p) # Null}
  IN IF P = {}
     THEN [match |-> Null, lastIndex |-> 0]
     ELSE [match |-> MatchAt(text, CHOOSE p \in P : \A o \in P : p <= o), lastIndex |-> 0]

execFromMatchStart(text, li) ==
  LET P == {p \in li..Len(text) : MatchAt(text, p) # Null}
  IN IF li > Len(text) \/ P = {}
     THEN [match |-> Null, lastIndex |-> 0]
     ELSE LET p == CHOOSE p \in P : \A o \in P : p <= o
              m == MatchAt(text, p)
          IN [match |-> m, lastIndex |-> m.index]

exec(text, li) ==
  LET P == {p \in li..Len(text) : MatchAt(text, p) # Null}
  IN IF li > Len(text) \/ P = {}
     THEN [match |-> Null, lastIndex |-> 0]
     ELSE LET p == CHOOSE p \in P : \A o \in P : p <= o
              m == MatchAt(text, p)
          IN [match |-> m, lastIndex |-> m.last]

(***************************************************************************)
(* Host editor: positions, ranges, resource paths                          *)
(***************************************************************************)
\* String.prototype.indexOf: the first offset of character c in s, or -1
indexOf(s, c) ==
  LET I == {i \in 1..Len(s) : s[i] = c}
  IN IF I = {} THEN -1 ELSE (CHOOSE i \in I : \A j \in I : i <= j) - 1

\* the offset at which the line holding offset o starts
LineStart(doc, o) ==
  LET B == {i \in 1..o : doc[i] = NL}
  IN IF B = {} THEN 0 ELSE CHOOSE i \in B : \A j \in B : j <= i

\* TextDocument.positionAt: <<line, character>> of an offset
positionAt(doc, offset) ==
  LET o == IF offset < 0 THEN 0 ELSE IF offset > Len(doc) THEN Len(doc) ELSE offset
  IN <<Cardinality({i \in 1..o : doc[i] = NL}), o - LineStart(doc, o)>>

\* TextDocument.offsetAt: the offset of a position; the character is clipped
\* to the line's length, a line past the last one gives the document's end
offsetAt(doc, pos) ==
  LET starts == {0} \cup {i \in 1..Len(doc) : doc[i] = NL}
      L == {s \in starts : Cardinality({x \in starts : x < s}) = pos[1]}
  IN IF L = {} THEN Len(doc)
     ELSE LET lo == CHOOSE s \in L : TRUE
              E == {i - 1 : i \in {i \in (lo + 1)..Len(doc) : doc[i] = NL}} \cup {Len(doc)}
              hi == CHOOSE e \in E : \A x \in E : e <= x
          IN IF lo + pos[2] > hi THEN hi ELSE lo + pos[2]

\* TextDocument.getText(range)
getText(doc, start, end) == SubSeq(doc, offsetAt(doc, start) + 1, offsetAt(doc, end))

\* path.posix: the segments of a path
RECURSIVE SplitPath(_, _, _, _)
SplitPath(s, i, cur, acc) ==
  IF i > Len(s) THEN Append(acc, cur)
  ELSE IF s[i] = "/" THEN SplitPath(s, i + 1, <<>>, Append(acc, cur))
  ELSE SplitPath(s, i + 1, Append(cur, s[i]), acc)

\* path.posix.normalize on segments: empty and "." segments go, ".." pops
RECURSIVE ResolveSegments(_, _, _)
ResolveSegments(segs, i, acc) ==
  IF i > Len(segs) THEN acc
  ELSE IF segs[i] = <<>> \/ segs[i] = <<".">> THEN ResolveSegments(segs, i + 1, acc)
  ELSE IF segs[i] = <<".", ".">>
       THEN ResolveSegments(segs, i + 1,
                            IF acc = <<>> THEN acc ELSE SubSeq(acc, 1, Len(acc) - 1))
  ELSE ResolveSegments(segs, i + 1, Append(acc, segs[i]))

RECURSIVE JoinSegments(_, _)
JoinSegments(segs, i) ==
  IF i > Len(segs) THEN <<>> ELSE <<"/">> \o segs[i] \o JoinSegments(segs, i + 1)

NormalizePath(p) == JoinSegments(ResolveSegments(SplitPath(p, 1, <<>>, <<>>), 1, <<>>), 1)

\* vscode.Uri.joinPath(base, a, b)
joinPath(base, a, b) == NormalizePath(base \o <<"/">> \o a \o <<"/">> \o b)

PhpSuffix == <<".", "p", "h", "p">>

\* workspaceFolders[0].uri
WorkspaceUri == <<"/", "w">>

\* no resource
NullUri == <<>>

(***************************************************************************)
(* State                                                                   *)
(***************************************************************************)
VARIABLES
  text,             \* the document's text (the subject handed to exec)
  typed,            \* how many pieces the user has typed into the document
  pc,               \* where the running handler stands
  lastIndex,        \* regex.lastIndex of the handler's regular expression
  match,            \* the handler's variable match
  matches,          \* the matches the running scan has seen, in order
  links,            \* the handler's array links
  workspaceFolder,  \* vscode.workspace.workspaceFolders?.[0] exists
  snippetPath,      \* the configured kirbysnippetopener.snippetPath
  call,             \* regex tests: the parts the text under test is made of
  tested,           \* regex tests: the parts of the texts handed to exec so far
  activeEditor,     \* vscode.window.activeTextEditor exists
  selection,        \* editor.selection, <<from, to>> as offsets
  selectedText,     \* createSnippetFromSelection's variable selectedText
  promptPath,       \* createSnippetFromSelection's variable snippetPath
  files,            \* the files written, each a path and its content
  dirs,             \* the directories created
  messages,         \* the messages shown to the user, in order
  version,          \* document.version: the edits applied to the document
  commands,         \* how often createSnippetFromSelection has been invoked
  answers,          \* the answers given at the input box, in order
  openName,         \* openSnippet's argument snippetName
  openUri,          \* openSnippet's variable snippetUri
  opened,           \* the resources handed to openTextDocument, in order
  tabs,             \* the documents shown by showTextDocument, in order
  opens             \* how often openSnippet has been invoked

docVars == <<text, typed>>
scanVars == <<lastIndex, match, matches, links>>
cfgVars == <<workspaceFolder, snippetPath>>
testVars == <<call, tested>>
editorVars == <<activeEditor, selection>>
cmdVars == <<selectedText, promptPath, files, dirs, messages, version, commands, answers>>
openVars == <<openName, openUri, opened, tabs, opens>>
vars == <<text, typed, pc, lastIndex, match, matches, links, workspaceFolder, snippetPath,
          call, tested, activeEditor, selection, selectedText, promptPath, files, dirs,
          messages, version, commands, answers, openName, openUri, opened, tabs, opens>>

(***************************************************************************)
(* The extension                                                           *)
(***************************************************************************)
\* getExtensionConfig().snippetPath
getExtensionConfig == snippetPath

\* getSnippetUri: the resource of a snippet name, or NullUri
getSnippetUriOutsideSnippetPath(snippetName) ==
  IF ~workspaceFolder \/ getExtensionConfig = <<>> THEN NullUri
  ELSE joinPath(WorkspaceUri, <<>>, snippetName \o PhpSuffix)

getSnippetUri(snippetName) ==
  IF ~workspaceFolder \/ getExtensionConfig = <<>> THEN NullUri
  ELSE joinPath(WorkspaceUri, getExtensionConfig, snippetName \o PhpSuffix)

\* openSnippet: the resource the command opens for a snippet name
openSnippetTarget(snippetName) == getSnippetUri(snippetName)

\* getSnippetNameRange: the range of the name inside the match
getSnippetNameRangeWithQuote(doc, m) ==
  LET snippetNameStartInMatch == indexOf(m.g0, m.g1)
  IN [start |-> positionAt(doc, m.index + snippetNameStartInMatch),
      end |-> positionAt(doc, m.index + snippetNameStartInMatch + Len(m.g2))]

getSnippetNameRange(doc, m) ==
  LET snippetNameStartInMatch == indexOf(m.g0, m.g1) + 1
  IN [start |-> positionAt(doc, m.index + snippetNameStartInMatch),
      end |-> positionAt(doc, m.index + snippetNameStartInMatch + Len(m.g2))]

\* createDocumentLink: the link of a match, or no link; a link is its range,
\* its target and the snippet name its tooltip shows
createDocumentLink(doc, m, snippetName) ==
  LET snippetUri == getSnippetUri(snippetName)
  IN IF snippetUri = NullUri THEN <<>>
     ELSE <<[range |-> getSnippetNameRange(doc, m), target |-> snippetUri,
             tooltip |-> snippetName]>>

\* no text under test
NoCall == [ident |-> <<>>, ws0 |-> 0, ws1 |-> 0, q1 |-> "", name |-> <<>>, q2 |-> "",
           ws2 |-> 0, rest |-> <<>>, close |-> FALSE]

\* the answer of a cancelled input box
Undefined == <<"undefined">>

\* no command has run
NoCommand ==
  /\ selectedText = <<>>
  /\ promptPath = Undefined
  /\ files = {}
  /\ dirs = {}
  /\ messages = <<>>
  /\ version = 0
  /\ commands = 0
  /\ answers = <<>>

\* openSnippet has not run
NoOpen ==
  /\ openName = <<>>
  /\ openUri = NullUri
  /\ opened = <<>>
  /\ tabs = <<>>
  /\ opens = 0

(***************************************************************************)
(* The user types into the document                                        *)
(***************************************************************************)
Snippet == <<"s", "n", "i", "p", "p", "e", "t">>

\* snippet('a')
CallA == Snippet \o <<"(", SQ, "a", SQ, ")">>

\* snippet("b")
CallB == Snippet \o <<"(", DQ, "b", DQ, ")">>

\* snippet(  'e'  )
CallSpaced == Snippet \o <<"(", " ", " ", SQ, "e", SQ, " ", " ", ")">>

\* snippet('c/d', : a call whose further arguments follow
CallOpen == Snippet \o <<"(", SQ, "c", "/", "d", SQ, ",", NL>>

\* f(x) : an argument with parentheses of its own
ArgCall == <<"f", "(", "x", ")">>

\* echo 'x';
Echo == <<"e", "c", "h", "o", " ", SQ, "x", SQ, ";">>

Pieces == {CallA, CallB, CallSpaced, CallOpen, ArgCall, Echo, <<")">>, <<";", " ">>, <<NL>>}

MaxPieces == 3

Type(piece) ==
  /\ pc \in {"idle", "done"}
  /\ typed < MaxPieces
  /\ text' = text \o piece
  /\ typed' = typed + 1
  /\ pc' = "idle"
  /\ lastIndex' = 0
  /\ match' = Null
  /\ matches' = <<>>
  /\ links' = <<>>
  /\ UNCHANGED <<cfgVars, testVars, editorVars, cmdVars, openVars>>

(***************************************************************************)
(* provideDocumentLinks                                                    *)
(***************************************************************************)
\* entry: links = [], regex = getSnippetRegex()
provideDocumentLinks ==
  /\ pc \in {"idle", "done"}
  /\ pc' = "scan"
  /\ lastIndex' = 0
  /\ match' = Null
  /\ matches' = <<>>
  /\ links' = <<>>
  /\ UNCHANGED <<docVars, cfgVars, testVars, editorVars, cmdVars, openVars>>

\* one evaluation of the loop condition: (match = regex.exec(text)) !== null,
\* and the loop body when it holds, the return when it does not
ScanStep ==
  /\ pc = "scan"
  /\ \E r \in {exec(text, lastIndex)} :
        /\ match' = r.match
        /\ lastIndex' = r.lastIndex
        /\ IF r.match = Null
           THEN /\ pc' = "done"
                /\ UNCHANGED <<matches, links>>
           ELSE /\ pc' = "scan"
                /\ matches' = Append(matches, r.match)
                /\ links' = links \o createDocumentLink(text, r.match, r.match.g2)
  /\ UNCHANGED <<docVars, cfgVars, testVars, editorVars, cmdVars, openVars>>

(***************************************************************************)
(* The document link provider over the documents a user can type           *)
(***************************************************************************)
Init ==
  /\ text = <<>>
  /\ typed = 0
  /\ pc = "idle"
  /\ lastIndex = 0
  /\ match = Null
  /\ matches = <<>>
  /\ links = <<>>
  /\ workspaceFolder \in BOOLEAN
  /\ snippetPath \in {<<>>, <<"s", "n", "i", "p", "p", "e", "t", "s">>}
  /\ call = NoCall
  /\ tested = <<>>
  /\ activeEditor = TRUE
  /\ selection = <<0, 0>>
  /\ NoCommand
  /\ NoOpen

Next ==
  \/ \E piece \in Pieces : Type(piece)
  \/ provideDocumentLinks
  \/ ScanStep

Spec == Init /\ [][Next]_vars

\* a step of the running while loop, as pc and lastIndex show it: the loop
\* condition is evaluated, and the loop goes on or returns
LoopRuns ==
  /\ pc = "scan"
  /\ pc' \in {"scan", "done"}
  /\ lastIndex' \in 0..Len(text)

\* the while loop of provideDocumentLinks is synchronous code: once entered
\* it runs until its condition fails.  ScanStep is the only action enabled
\* at pc = "scan" and each ScanStep changes pc or lastIndex, so this is weak
\* fairness of ScanStep, with an enabling condition that needs no evaluation
\* of the regular expression.
SpecFair == Spec /\ WF_<<pc, lastIndex>>(LoopRuns)

(***************************************************************************)
(* createSnippetFromSelection                                              *)
(***************************************************************************)
Error(t) == [kind |-> "error", text |-> t, arg |-> <<>>]
Info(t, a) == [kind |-> "info", text |-> t, arg |-> a]

\* path.dirname
dirname(p) ==
  LET S == {i \in 1..Len(p) : p[i] = "/"}
  IN IF S = {} THEN <<".">>
     ELSE LET k == CHOOSE i \in S : \A j \in S : j <= i
          IN IF k = 1 THEN <<"/">> ELSE SubSeq(p, 1, k - 1)

\* createSnippetFile: path.join(workspaceFolder.uri.fsPath, config.snippetPath,
\* `${snippetPath}.php`)
fullPath(input) == joinPath(WorkspaceUri, getExtensionConfig, input \o PhpSuffix)

\* .replace(/^snippets\//, "")
SnippetsPrefix == <<"s", "n", "i", "p", "p", "e", "t", "s", "/">>

StripSnippetsPrefix(p) ==
  IF Len(p) >= Len(SnippetsPrefix) /\ SubSeq(p, 1, Len(SnippetsPrefix)) = SnippetsPrefix
  THEN SubSeq(p, Len(SnippetsPrefix) + 1, Len(p))
  ELSE p

\* .replace(/\.php$/, "")
StripPhpSuffix(p) ==
  IF Len(p) >= Len(PhpSuffix) /\ SubSeq(p, Len(p) - Len(PhpSuffix) + 1, Len(p)) = PhpSuffix
  THEN SubSeq(p, 1, Len(p) - Len(PhpSuffix))
  ELSE p

\* replaceSelectionWithSnippetCall: `snippet('${cleanPath}')`
snippetCall(input) ==
  Snippet \o <<"(", SQ>> \o StripPhpSuffix(StripSnippetsPrefix(input)) \o <<SQ, ")">>

MaxCommands == 2

\* the handler up to await promptForSnippetPath()
createSnippetFromSelection ==
  /\ pc = "idle"
  /\ commands < MaxCommands
  /\ commands' = commands + 1
  /\ IF ~activeEditor
     THEN /\ messages' = Append(messages, Error("No active editor found."))
          /\ pc' = "idle"
          /\ UNCHANGED selectedText
     ELSE LET selected == SubSeq(text, selection[1] + 1, selection[2])
          IN /\ selectedText' = selected
             /\ IF selected = <<>>
                THEN /\ messages' = Append(messages, Error("No text selected."))
                     /\ pc' = "idle"
                ELSE /\ pc' = "prompt"
                     /\ UNCHANGED messages
  /\ UNCHANGED <<docVars, scanVars, cfgVars, testVars, editorVars, promptPath, files, dirs,
                 version, answers, openVars>>

\* createSnippetFile(snippetPath, content): what the file system does with
\* mkdirSync and writeFileSync is fs, one of "ok", "mkdir throws",
\* "write throws"
createSnippetFileSkipChecks(input, content, fs) ==
  LET path == fullPath(input)
  IN IF fs = "ok"
          THEN /\ dirs' = dirs \cup {dirname(path)}
               /\ files' = {f \in files : f.path # path}
                             \cup {[path |-> path, content |-> content]}
               /\ messages' = Append(messages, Info("Snippet created at", input))
               /\ pc' = "replace"
          ELSE /\ dirs' = IF fs = "write throws" THEN dirs \cup {dirname(path)} ELSE dirs
               /\ messages' = Append(messages, Error("Error creating snippet"))
               /\ pc' = "idle"
               /\ UNCHANGED files

createSnippetFileReturnsTrue(input, content, fs) ==
  LET path == fullPath(input)
  IN IF fs = "ok"
     THEN /\ dirs' = dirs \cup {dirname(path)}
          /\ files' = {f \in files : f.path # path} \cup {[path |-> path, content |-> content]}
          /\ messages' = Append(messages, Info("Snippet created at", input))
          /\ pc' = "replace"
     ELSE /\ dirs' = IF fs = "write throws" THEN dirs \cup {dirname(path)} ELSE dirs
          /\ messages' = Append(messages, Error("Error creating snippet"))
          /\ pc' = "replace"
          /\ UNCHANGED files

createSnippetFile(input, content, fs) ==
  IF getExtensionConfig = <<>>
  THEN /\ messages' =
            Append(messages, Error("You must set a snippet path in VS Code configuration."))
       /\ pc' = "idle"
       /\ UNCHANGED <<files, dirs>>
  ELSE IF ~workspaceFolder
  THEN /\ messages' = Append(messages, Error("No workspace folder found."))
       /\ pc' = "idle"
       /\ UNCHANGED <<files, dirs>>
  ELSE LET path == fullPath(input)
       IN IF fs = "ok"
          THEN /\ dirs' = dirs \cup {dirname(path)}
               /\ files' = {f \in files : f.path # path}
                             \cup {[path |-> path, content |-> content]}
               /\ messages' = Append(messages, Info("Snippet created at", input))
               /\ pc' = "replace"
          ELSE /\ dirs' = IF fs = "write throws" THEN dirs \cup {dirname(path)} ELSE dirs
               /\ messages' = Append(messages, Error("Error creating snippet"))
               /\ pc' = "idle"
               /\ UNCHANGED files

\* the input box closes with the answer input: the handler from the return
\* of promptForSnippetPath() to the return of createSnippetFile
PromptAnswer(input, fs) ==
  /\ pc = "prompt"
  /\ promptPath' = input
  /\ answers' = Append(answers, input)
  /\ IF input = Undefined \/ input = <<>>
     THEN /\ pc' = "idle"
          /\ UNCHANGED <<files, dirs, messages>>
     ELSE createSnippetFile(input, selectedText, fs)
  /\ UNCHANGED <<docVars, scanVars, cfgVars, testVars, editorVars, selectedText, version,
                 commands, openVars>>

\* replaceSelectionWithSnippetCall: the selection is replaced by the call;
\* afterwards the editor's selection covers the inserted call or is the
\* cursor at its end
ReplaceSelection(covering) ==
  /\ pc = "replace"
  /\ LET inserted == snippetCall(promptPath)
     IN /\ text' = SubSeq(text, 1, selection[1]) \o inserted
                     \o SubSeq(text, selection[2] + 1, Len(text))
        /\ selection' = IF covering
                        THEN <<selection[1], selection[1] + Len(inserted)>>
                        ELSE <<selection[1] + Len(inserted), selection[1] + Len(inserted)>>
  /\ version' = version + 1
  /\ pc' = "idle"
  /\ UNCHANGED <<typed, scanVars, cfgVars, testVars, activeEditor, selectedText, promptPath,
                 files, dirs, messages, commands, answers, openVars>>

(***************************************************************************)
(* The commands on a document with a selection                             *)
(***************************************************************************)
MaxDocLen == 2

RECURSIVE Docs(_)
Docs(n) ==
  IF n = 0 THEN {<<>>}
  ELSE Docs(n - 1) \cup {Append(d, c) : d \in {d \in Docs(n - 1) : Len(d) = n - 1},
                                        c \in {"x", NL}}

\* the answers of the input box: cancelled, empty, c, snippets/c, c.php
PromptAnswers ==
  {Undefined, <<>>, <<"c">>, SnippetsPrefix \o <<"c">>, <<"c">> \o PhpSuffix}

InitCommands ==
  /\ text \in Docs(MaxDocLen)
  /\ typed = 0
  /\ pc = "idle"
  /\ lastIndex = 0
  /\ match = Null
  /\ matches = <<>>
  /\ links = <<>>
  /\ workspaceFolder \in BOOLEAN
  /\ snippetPath \in {<<>>, <<"s", "n", "i", "p", "p", "e", "t", "s">>}
  /\ call = NoCall
  /\ tested = <<>>
  /\ activeEditor \in BOOLEAN
  /\ selection \in {<<a, b>> : a \in 0..Len(text), b \in 0..Len(text)}
  /\ selection[1] <= selection[2]
  /\ NoCommand
  /\ NoOpen

NextCommands ==
  \/ createSnippetFromSelection
  \/ \E input \in PromptAnswers, fs \in {"ok", "mkdir throws", "write throws"} :
       PromptAnswer(input, fs)
  \/ \E covering \in BOOLEAN : ReplaceSelection(covering)

SpecCommands == InitCommands /\ [][NextCommands]_vars

(***************************************************************************)
(* openSnippet                                                             *)
(***************************************************************************)
\* `Snippet ${snippetName}.php konnte nicht gefunden werden.`
NotFound(snippetName) ==
  [kind |-> "error", text |-> "Snippet .php konnte nicht gefunden werden.",
   arg |-> snippetName]

\* the file system holds a file at the resource
FileExists(uri) == \E f \in files : f.path = uri

MaxOpens == 2

\* the handler up to await openTextDocument(snippetUri)
openSnippet(snippetName) ==
  /\ pc = "idle"
  /\ opens < MaxOpens
  /\ opens' = opens + 1
  /\ openName' = snippetName
  /\ openUri' = openSnippetTarget(snippetName)
  /\ pc' = IF openSnippetTarget(snippetName) = NullUri THEN "idle" ELSE "open"
  /\ UNCHANGED <<docVars, scanVars, cfgVars, testVars, editorVars, cmdVars, opened, tabs>>

\* catch (error): the message, and the handler returns
catchOpenErrorSilently(snippetName) ==
  /\ messages' = messages
  /\ pc' = "idle"

catchOpenError(snippetName) ==
  /\ messages' = Append(messages, NotFound(snippetName))
  /\ pc' = "idle"

\* await vscode.workspace.openTextDocument(snippetUri): it throws when there
\* is no file at the resource or the host cannot read it as text
openTextDocument(readable) ==
  /\ pc = "open"
  /\ opened' = Append(opened, openUri)
  /\ IF FileExists(openUri) /\ readable
     THEN /\ pc' = "show"
          /\ UNCHANGED messages
     ELSE catchOpenError(openName)
  /\ UNCHANGED <<docVars, scanVars, cfgVars, testVars, editorVars, selectedText, promptPath,
                 files, dirs, version, commands, answers, openName, openUri, tabs, opens>>

\* await vscode.window.showTextDocument(doc): the host shows the document or
\* throws
showTextDocument(shows) ==
  /\ pc = "show"
  /\ IF shows
     THEN /\ tabs' = Append(tabs, openUri)
          /\ pc' = "idle"
          /\ UNCHANGED messages
     ELSE /\ catchOpenError(openName)
          /\ UNCHANGED tabs
  /\ UNCHANGED <<docVars, scanVars, cfgVars, testVars, editorVars, selectedText, promptPath,
                 files, dirs, version, commands, answers, openName, openUri, opened, opens>>

(***************************************************************************)
(* openSnippet over a workspace with snippet files                         *)
(***************************************************************************)
\* the names openSnippet is invoked with: a, c/d
OpenNames == {<<"a">>, <<"c", "/", "d">>}

\* the snippet files a workspace can hold: snippets/a.php, snippets/c/d.php
SnippetFiles ==
  {[path |-> <<"/", "w", "/", "s", "n", "i", "p", "p", "e", "t", "s", "/">> \o n \o PhpSuffix,
    content |-> <<"x">>] : n \in OpenNames}

InitOpen ==
  /\ text = <<>>
  /\ typed = 0
  /\ pc = "idle"
  /\ lastIndex = 0
  /\ match = Null
  /\ matches = <<>>
  /\ links = <<>>
  /\ workspaceFolder \in BOOLEAN
  /\ snippetPath \in {<<>>, <<"s", "n", "i", "p", "p", "e", "t", "s">>}
  /\ call = NoCall
  /\ tested = <<>>
  /\ activeEditor = TRUE
  /\ selection = <<0, 0>>
  /\ selectedText = <<>>
  /\ promptPath = Undefined
  /\ files \in SUBSET SnippetFiles
  /\ dirs = {}
  /\ messages = <<>>
  /\ version = 0
  /\ commands = 0
  /\ answers = <<>>
  /\ NoOpen

NextOpen ==
  \/ \E snippetName \in OpenNames : openSnippet(snippetName)
  \/ \E readable \in BOOLEAN : openTextDocument(readable)
  \/ \E shows \in BOOLEAN : showTextDocument(shows)

SpecOpen == InitOpen /\ [][NextOpen]_vars

(***************************************************************************)
(* Reading a call off the text, character by character                     *)
(***************************************************************************)
RECURSIVE SkipSpaces(_, _)
SkipSpaces(t, i) ==
  IF i < Len(t) /\ t[i + 1] \in {" ", NL, "\t"} THEN SkipSpaces(t, i + 1) ELSE i

\* the offset of the first quote character at or after offset i, or -1
RECURSIVE NextQuote(_, _)
NextQuote(t, i) ==
  IF i >= Len(t) THEN -1
  ELSE IF t[i + 1] = SQ \/ t[i + 1] = DQ THEN i
  ELSE NextQuote(t, i + 1)

\* the offset of the first ")" at or after offset i, or -1
RECURSIVE NextCloseParen(_, _)
NextCloseParen(t, i) ==
  IF i >= Len(t) THEN -1
  ELSE IF t[i + 1] = ")" THEN i
  ELSE NextCloseParen(t, i + 1)

\* the offset of the ")" that closes the "(" before offset i, at nesting
\* depth d, or -1
RECURSIVE OwnCloseParen(_, _, _)
OwnCloseParen(t, i, d) ==
  IF i >= Len(t) THEN -1
  ELSE IF t[i + 1] = "(" THEN OwnCloseParen(t, i + 1, d + 1)
  ELSE IF t[i + 1] = ")" THEN (IF d = 0 THEN i ELSE OwnCloseParen(t, i + 1, d - 1))
  ELSE OwnCloseParen(t, i + 1, d)

\* the parentheses of t[i + 1 ..] balance, d being open before offset i
RECURSIVE Balanced(_, _, _)
Balanced(t, i, d) ==
  IF i >= Len(t) THEN d = 0
  ELSE IF t[i + 1] = "(" THEN Balanced(t, i + 1, d + 1)
  ELSE IF t[i + 1] = ")" THEN d > 0 /\ Balanced(t, i + 1, d - 1)
  ELSE Balanced(t, i + 1, d)

\* `snippet(` stands at offset p
CallAt(t, p) ==
  /\ p >= 0
  /\ p + 8 <= Len(t)
  /\ SubSeq(t, p + 1, p + 8) = <<"s", "n", "i", "p", "p", "e", "t", "(">>

\* the offsets of the opening and of the next quote of the call at offset p
OpenQuote(t, p) == SkipSpaces(t, p + 8)
CloseQuote(t, p) == NextQuote(t, OpenQuote(t, p) + 1)

\* the first argument of the call at offset p: "unquoted", "unclosed",
\* "empty", "mixed" or "ok"
ArgShape(t, p) ==
  LET q == OpenQuote(t, p)
      c == CloseQuote(t, p)
  IN IF q >= Len(t) \/ t[q + 1] \notin {SQ, DQ} THEN "unquoted"
     ELSE IF c = -1 THEN "unclosed"
     ELSE IF c = q + 1 THEN "empty"
     ELSE IF t[c + 1] # t[q + 1] THEN "mixed"
     ELSE "ok"

ArgName(t, p) == SubSeq(t, OpenQuote(t, p) + 2, CloseQuote(t, p))
ArgQuote(t, p) == t[OpenQuote(t, p) + 1]

\* a well-formed call stands at offset p: snippet( 'X' ... )
WellFormedCallAt(t, p) ==
  /\ CallAt(t, p)
  /\ ArgShape(t, p) = "ok"
  /\ NextCloseParen(t, CloseQuote(t, p) + 1) # -1

Indices(s) == 1..Len(s)

(***************************************************************************)
(* Claims about the scan of a document                                     *)
(***************************************************************************)
\* C1 (as claimed): when the scan of a text has ended, every well-formed call
\* snippet('X') or snippet("X") of the text has a match whose group 2 is X
\* and whose group 1 is the quote character of the call (stated for the
\* texts whose parentheses balance).
C1_EveryWellFormedCallMatched ==
  (pc = "done" /\ Balanced(text, 0, 0)) =>
    \A p \in 0..Len(text) :
      WellFormedCallAt(text, p) =>
        \E i \in Indices(matches) :
          matches[i].g2 = ArgName(text, p) /\ matches[i].g1 = ArgQuote(text, p)

\* C4: the matches of a scan come in strictly increasing start offset and
\* none overlaps the one before it; snippet('a'); snippet("b") yields exactly
\* the two matches a, b.
C4_MatchesOrderedDisjoint ==
  /\ \A i, j \in Indices(matches) :
       i < j => /\ matches[i].index < matches[j].index
                /\ matches[i].last <= matches[j].index
  /\ \A i \in Indices(matches) : matches[i].index < matches[i].last
  /\ (pc = "done" /\ text = CallA \o <<";", " ">> \o CallB) =>
       /\ Len(matches) = 2
       /\ matches[1].g2 = <<"a">>
       /\ matches[2].g2 = <<"b">>

C4_Witness ==
  /\ pc = "done"
  /\ text = CallA \o <<";", " ">> \o CallB
  /\ Len(matches) = 2

\* C6 (as claimed): every match of a call whose opening parenthesis is closed
\* ends at the parenthesis that closes it.
C6_MatchEndsAtOwnParen ==
  \A i \in Indices(matches) :
    LET own == OwnCloseParen(text, matches[i].index + 8, 0)
    IN own # -1 => matches[i].last = own + 1

\* C6 (amended): every match ends at the first `)` after the closing quote of
\* its name; that is the parenthesis closing the call when no parenthesis is
\* opened in between.
C6_MatchEndsAtFirstParen ==
  \A i \in Indices(matches) :
    LET p == matches[i].index
        first == NextCloseParen(text, CloseQuote(text, p) + 1)
    IN /\ CallAt(text, p)
       /\ matches[i].last = first + 1
       /\ (\A k \in (p + 8)..first : text[k + 1] # "(") =>
            first = OwnCloseParen(text, p + 8, 0)

\* snippet('c/d', f(x)) has been scanned: its match ends at the `)` of f(x)
C6_Witness ==
  /\ pc = "done"
  /\ text = CallOpen \o ArgCall \o <<")">>
  /\ Len(matches) = 1
  /\ matches[1].last = Len(text) - 1

\* C8: the text of the document in the range of every link is the name of
\* its match, and the characters around the range are the quotes.
C8_LinkRangeIsName ==
  \A i \in Indices(links) :
    LET r == links[i].range
        from == offsetAt(text, r.start)
        to == offsetAt(text, r.end)
    IN /\ getText(text, r.start, r.end) = matches[i].g2
       /\ getText(text, r.start, r.end) = ArgName(text, matches[i].index)
       /\ from > 0 /\ text[from] = matches[i].g1
       /\ to < Len(text) /\ text[to + 1] = matches[i].g1

\* a link on the second line of a document, for a call with spaces before
\* the quote, after a link for a call with further arguments
C8_Witness ==
  /\ pc = "done"
  /\ Len(links) = 2
  /\ links[1].tooltip = <<"c", "/", "d">>
  /\ links[2].tooltip = <<"e">>
  /\ links[2].range.start[1] = 1

\* C9: with a workspace folder and a configured snippetPath the provider
\* returns one link per match, in match order, each with the target
\* <workspaceFolder>/<snippetPath>/<name>.php, which is the resource
\* openSnippet opens for that name; a document without a call yields no link.
C9_OneLinkPerMatch ==
  /\ (pc = "done" /\ workspaceFolder /\ snippetPath # <<>>) =>
       /\ Len(links) = Len(matches)
       /\ \A i \in Indices(links) :
            /\ links[i].tooltip = matches[i].g2
            /\ links[i].target =
                 NormalizePath(WorkspaceUri \o <<"/">> \o snippetPath \o <<"/">>
                               \o ArgName(text, matches[i].index) \o PhpSuffix)
            /\ links[i].target = openSnippetTarget(matches[i].g2)
  /\ (pc = "done" /\ \A p \in 0..Len(text) : ~CallAt(text, p)) => links = <<>>

C9_Witness ==
  /\ pc = "done"
  /\ workspaceFolder /\ snippetPath # <<>>
  /\ Len(links) = 2
  /\ links[1].tooltip # links[2].tooltip

(***************************************************************************)
(* The regular expression under test: const regex = snippetRegex(), then   *)
(* regex.exec(text), then regex.exec of the same or of another text, as    *)
(* the test suite does.  A text under test is one call made of parts:      *)
(*   ident ws0 ( ws1 q1 name q2 ws2 rest )                                 *)
(***************************************************************************)
MaxWs == 1

RECURSIVE Spaces(_)
Spaces(n) == IF n = 0 THEN <<>> ELSE <<" ">> \o Spaces(n - 1)

QuoteText(q) == IF q = "" THEN <<>> ELSE <<q>>

Render(c) ==
  c.ident \o Spaces(c.ws0) \o <<"(">> \o Spaces(c.ws1) \o QuoteText(c.q1) \o c.name
    \o QuoteText(c.q2) \o Spaces(c.ws2) \o c.rest \o (IF c.close THEN <<")">> ELSE <<>>)

Idents == {Snippet, <<"s", "n", "i", "p">>, Snippet \o <<"s">>, <<"m", "y">> \o Snippet}

Names == {<<>>, <<"a", "/", "b">>}

\* further arguments: none; , 'k'; a line break and f(x)
Rests == {<<>>, <<",", " ", SQ, "k", SQ>>, <<",", NL, "f", "(", "x", ")">>}

Calls ==
  [ident : Idents, ws0 : 0..MaxWs, ws1 : 0..MaxWs, q1 : {"", SQ, DQ}, name : Names,
   q2 : {"", SQ, DQ}, ws2 : 0..MaxWs, rest : Rests, close : BOOLEAN]

\* snippet('a') and snippet("b")
SingleQuoted == [ident |-> Snippet, ws0 |-> 0, ws1 |-> 0, q1 |-> SQ, name |-> <<"a">>,
                 q2 |-> SQ, ws2 |-> 0, rest |-> <<>>, close |-> TRUE]
DoubleQuoted == [ident |-> Snippet, ws0 |-> 0, ws1 |-> 0, q1 |-> DQ, name |-> <<"b">>,
                 q2 |-> DQ, ws2 |-> 0, rest |-> <<>>, close |-> TRUE]

\* const regex = snippetRegex()
snippetRegex ==
  /\ pc = "second"
  /\ pc' = "fresh"
  /\ lastIndex' = 0
  /\ match' = Null
  /\ matches' = <<>>
  /\ tested' = <<>>
  /\ UNCHANGED <<docVars, links, cfgVars, call, editorVars, cmdVars, openVars>>

\* regex.exec(text)
RegexExec ==
  /\ pc \in {"fresh", "first"}
  /\ \E r \in {exec(text, lastIndex)} :
        /\ match' = r.match
        /\ lastIndex' = r.lastIndex
        /\ matches' = Append(matches, r.match)
  /\ tested' = Append(tested, call)
  /\ pc' = IF pc = "fresh" THEN "first" ELSE "second"
  /\ UNCHANGED <<docVars, links, cfgVars, call, editorVars, cmdVars, openVars>>

\* the test goes on to its next text with the same regex
NextSubject(c) ==
  /\ pc = "first"
  /\ c # call
  /\ tested = <<call>>
  /\ call' = c
  /\ text' = Render(c)
  /\ UNCHANGED <<typed, pc, scanVars, cfgVars, tested, editorVars, cmdVars, openVars>>

InitRegex ==
  /\ call \in Calls
  /\ text = Render(call)
  /\ typed = 0
  /\ pc = "fresh"
  /\ lastIndex = 0
  /\ match = Null
  /\ matches = <<>>
  /\ links = <<>>
  /\ workspaceFolder = TRUE
  /\ snippetPath = <<>>
  /\ tested = <<>>
  /\ activeEditor = TRUE
  /\ selection = <<0, 0>>
  /\ NoCommand
  /\ NoOpen

NextRegex ==
  \/ snippetRegex
  \/ RegexExec
  \/ \E c \in {SingleQuoted, DoubleQuoted} : NextSubject(c)

SpecRegex == InitRegex /\ [][NextRegex]_vars

(***************************************************************************)
(* Claims about the regular expression                                     *)
(***************************************************************************)
\* a fresh regex has been applied once, to the text under test
FirstExecDone == pc = "first" /\ tested = <<call>>

\* the parts make a call with a quoted, non-empty, closed first argument
WellFormedParts(c) ==
  /\ c.q1 \in {SQ, DQ}
  /\ c.q2 = c.q1
  /\ c.name # <<>>
  /\ c.close

\* C2 (as claimed): a call whose identifier before the parenthesis is not
\* exactly `snippet` (snip, snippets, mysnippet) yields no match.
C2_OtherIdentifierNeverMatches ==
  (FirstExecDone /\ call.ident # Snippet /\ WellFormedParts(call)) => match = Null

\* C3: every match stands at a call whose first argument is a non-empty name
\* without quote characters between two quotes of the same kind, and carries
\* that name and that quote; a text whose calls all have an unquoted, an
\* unclosed, a mixed-quoted or an empty first argument yields no match.
C3_MalformedNeverMatches ==
  /\ \A i \in Indices(matches) :
       matches[i] # Null =>
         LET t == Render(tested[i])
             m == matches[i]
         IN /\ CallAt(t, m.index)
            /\ ArgShape(t, m.index) = "ok"
            /\ m.g2 = ArgName(t, m.index)
            /\ m.g1 = ArgQuote(t, m.index)
            /\ m.g2 # <<>>
            /\ \A k \in Indices(m.g2) : m.g2[k] # SQ /\ m.g2[k] # DQ
            /\ t[CloseQuote(t, m.index) + 1] = m.g1
  /\ (FirstExecDone /\ \A p \in 0..Len(text) : CallAt(text, p) => ArgShape(text, p) # "ok")
       => match = Null

\* snippet("a/b') has been scanned and yields no match
C3_Witness ==
  /\ FirstExecDone
  /\ CallAt(text, 0)
  /\ ArgShape(text, 0) = "mixed"
  /\ call.close
  /\ match = Null

\* C5 (as claimed): one regex applied with exec to a text with a single-quoted
\* call and then to another text with a double-quoted call returns a match
\* for each, with that text's quote character and name.
C5_SecondTextMatchedAsFresh ==
  (/\ pc = "second"
   /\ tested[1] # tested[2]
   /\ tested[1].ident = Snippet /\ WellFormedParts(tested[1]) /\ tested[1].q1 = SQ
   /\ tested[2].ident = Snippet /\ WellFormedParts(tested[2]) /\ tested[2].q1 = DQ
   /\ WellFormedCallAt(Render(tested[1]), 0)
   /\ WellFormedCallAt(Render(tested[2]), 0))
  => /\ matches[1].g1 = SQ /\ matches[1].g2 = tested[1].name
     /\ matches[2].g1 = DQ /\ matches[2].g2 = tested[2].name
     /\ matches[2] = exec(Render(tested[2]), 0).match

\* the call of a text under test without its optional whitespace
Dense(c) == [c EXCEPT !.ws0 = 0, !.ws1 = 0, !.ws2 = 0]

\* C7 (as claimed): whitespace between `snippet` and `(`, between `(` and the
\* opening quote, or between the closing quote and `)` does not prevent the
\* match, which has the name of the call without that whitespace.
C7_WhitespaceAnywhereStillMatches ==
  (/\ FirstExecDone
   /\ call.ident = Snippet
   /\ WellFormedParts(call)
   /\ WellFormedCallAt(Render(Dense(call)), 0))
  => /\ match # Null
     /\ match.g2 = ArgName(Render(Dense(call)), 0)

\* C7 (amended): whitespace between `(` and the opening quote or between the
\* closing quote and `)` does not prevent the match, which has the name of
\* the call without that whitespace; with whitespace between `snippet` and
\* `(` the call is not matched.
C7_WhitespaceInsideParens ==
  (/\ FirstExecDone
   /\ call.ident = Snippet
   /\ WellFormedParts(call)
   /\ WellFormedCallAt(Render(Dense(call)), 0))
  => /\ call.ws0 = 0 =>
          /\ match # Null
          /\ match.index = 0
          /\ match.g2 = ArgName(Render(Dense(call)), 0)
          /\ match.g2 = exec(Render(Dense(call)), 0).match.g2
     /\ call.ws0 > 0 => match = Null

\* snippet( 'a/b' ) has been scanned and yields the name a/b
C7_Witness ==
  /\ FirstExecDone
  /\ call.ident = Snippet
  /\ call.ws0 = 0 /\ call.ws1 > 0 /\ call.ws2 > 0
  /\ call.rest = <<>>
  /\ match # Null
  /\ match.g2 = <<"a", "/", "b">>

(***************************************************************************)
(* Claims about createSnippetFromSelection                                 *)
(***************************************************************************)
\* the command has only been invoked with the editor, selection and
\* configuration of the current state, and none of its runs is under way
CommandsOver == pc = "idle" /\ version = 0 /\ commands >= 1

NoSelection == selection[1] = selection[2]

NothingToCreateFrom ==
  ~activeEditor \/ NoSelection \/ snippetPath = <<>> \/ ~workspaceFolder

ErrorsShown == SelectSeq(messages, LAMBDA msg : msg.kind = "error")

\* the error of createSnippetFile for a missing configuration or folder
CannotCreate ==
  IF snippetPath = <<>>
  THEN Error("You must set a snippet path in VS Code configuration.")
  ELSE Error("No workspace folder found.")

Resolvable == workspaceFolder /\ snippetPath # <<>>

\* no invocation of openSnippet is under way
OpensOver == pc = "idle" /\ opens >= 1

\* what one step of the handler does to the attempts, the tabs and the
\* messages
OpenStep ==
  /\ (pc = "open" /\ ~FileExists(openUri)) =>
        /\ opened' = Append(opened, openUri)
        /\ messages' = Append(messages, NotFound(openName))
        /\ tabs' = tabs
        /\ pc' = "idle"
  /\ messages' # messages =>
        /\ messages' = Append(messages, NotFound(openName))
        /\ tabs' = tabs
        /\ pc' = "idle"
  /\ tabs' # tabs =>
        /\ tabs' = Append(tabs, openUri)
        /\ opened' = opened
        /\ opened[Len(opened)] = openUri
        /\ FileExists(openUri)
        /\ messages' = messages
        /\ pc' = "idle"

\* C11: an invocation of openSnippet whose target resolves hands the target
\* to openTextDocument exactly once; when the file is missing (or the host
\* throws while opening or showing it) exactly one error message is shown, no
\* tab is shown and nothing is retried; when the document is opened and shown
\* there is a tab for it and no message.  Every finished invocation so ends
\* in exactly one of the two; without workspace folder or snippetPath there
\* is no target and nothing is attempted.
C11_OneAttemptThenTabOrMessage ==
  /\ [](OpensOver =>
          /\ Len(opened) = IF Resolvable THEN opens ELSE 0
          /\ Len(tabs) + Len(messages) = Len(opened)
          /\ \A i \in 1..Len(tabs) : FileExists(tabs[i])
          /\ Len(messages) >= Cardinality({i \in 1..Len(opened) : ~FileExists(opened[i])}))
  /\ [][OpenStep]_vars

\* two invocations are over: one target was missing and got the message, the
\* other was opened and shown
C11_Witness ==
  /\ OpensOver
  /\ opens = 2
  /\ Len(tabs) = 1
  /\ messages = <<NotFound(<<"a">>)>>
  /\ ~FileExists(opened[1])
  /\ FileExists(opened[2])

(***************************************************************************)
(* createSnippetFromSelection: the write comes before the edit             *)
(***************************************************************************)
\* the messages of successful writes, and those of failed ones
Created == SelectSeq(messages, LAMBDA msg : msg.kind = "info")

NotCreated == SelectSeq(messages, LAMBDA msg : msg = Error("Error creating snippet"))

\* what one step of the handler does to the file, the messages and the text
WriteThenEdit ==
  /\ text' # text =>
        /\ pc = "replace"
        /\ version' = version + 1
        /\ messages[Len(messages)] = Info("Snippet created at", promptPath)
        /\ [path |-> fullPath(promptPath), content |-> selectedText] \in files
        /\ text' = SubSeq(text, 1, selection[1]) \o snippetCall(promptPath)
                     \o SubSeq(text, selection[2] + 1, Len(text))
  /\ (pc = "prompt" /\ pc' = "idle" /\ promptPath' # Undefined /\ promptPath' # <<>>) =>
        /\ Len(messages') = Len(messages) + 1
        /\ messages'[Len(messages')].kind = "error"
        /\ text' = text
        /\ files' = files
  /\ Len(NotCreated') > Len(NotCreated) =>
        /\ pc' = "idle"
        /\ text' = text
        /\ version' = version
        /\ files' = files

\* C12: the selection is replaced only after the snippet file has been
\* written: every edit follows a successful write of the same run, a run
\* attempts the write at most once, and when mkdirSync or writeFileSync
\* throws an error message is shown, the run ends and the text stays as it
\* was.
C12_EditOnlyAfterSuccessfulWrite ==
  /\ [](/\ Len(Created) = IF pc = "replace" THEN version + 1 ELSE version
        /\ Len(Created) + Len(NotCreated) <= commands
        /\ pc = "replace" => [path |-> fullPath(promptPath), content |-> selectedText] \in files)
  /\ [][WriteThenEdit]_vars

\* the first run failed in the file system and left the text alone, the
\* second wrote the file and replaced the selection
C12_Witness ==
  /\ pc = "idle"
  /\ commands = 2
  /\ version = 1
  /\ Len(messages) = 2
  /\ messages[1] = Error("Error creating snippet")
  /\ messages[2].kind = "info"
  /\ files # {}

(***************************************************************************)
(* Creation and navigation: the inserted call and the written file         *)
(***************************************************************************)
\* the last run of createSnippetFromSelection wrote the file and replaced
\* the selection
CreationSucceeded ==
  /\ pc = "idle"
  /\ version >= 1
  /\ messages # <<>>
  /\ messages[Len(messages)] = Info("Snippet created at", promptPath)

\* C13: after createSnippetFromSelection has succeeded for the path P entered
\* at the input box, the inserted text stands in the document where the
\* selection was, the scanner reads it as exactly one call, and the name of
\* that call resolves through getSnippetUri to the file that was written,
\* <workspaceFolder>/<snippetPath>/P.php.
C13_InsertedCallOpensWrittenFile ==
  CreationSucceeded =>
    LET inserted == snippetCall(promptPath)
        first == exec(inserted, 0)
    IN /\ SubSeq(text, selection[2] - Len(inserted) + 1, selection[2]) = inserted
       /\ first.match # Null
       /\ first.match.index = 0
       /\ first.match.last = Len(inserted)
       /\ exec(inserted, first.lastIndex).match = Null
       /\ getSnippetUri(first.match.g2) = fullPath(promptPath)
       /\ \E f \in files : f.path = getSnippetUri(first.match.g2)

(***************************************************************************)
(* The scan loop terminates                                                *)
(***************************************************************************)
\* the number of occurrences of snippet( in the text
Occurrences(t) ==
  Cardinality({p \in 0..Len(t) : /\ p + Len(Snippet) + 1 <= Len(t)
                                 /\ SubSeq(t, p + 1, p + Len(Snippet)) = Snippet
                                 /\ t[p + Len(Snippet) + 1] = "("})

\* a successful exec moves lastIndex forward, a failing one ends the loop
ScanAdvances ==
  pc = "scan" =>
    IF match' = Null
    THEN pc' = "done" /\ lastIndex' = 0
    ELSE /\ pc' = "scan"
         /\ match'.last > match'.index
         /\ match'.index >= lastIndex
         /\ lastIndex' = match'.last
         /\ lastIndex' > lastIndex
         /\ lastIndex' <= Len(text)

\* C14: the scan loop of provideDocumentLinks terminates on every document:
\* every match is non-empty, each successful exec strictly advances
\* lastIndex, the loop reaches its null result, and there are never more
\* links (nor matches) than occurrences of snippet( in the text.
C14_ScanTerminates ==
  /\ [](/\ \A i \in 1..Len(matches) : matches[i].last > matches[i].index
        /\ Len(links) <= Len(matches)
        /\ Len(matches) <= Occurrences(text)
        /\ pc = "scan" => Len(matches) <= lastIndex)
  /\ [][ScanAdvances]_vars
  /\ (pc = "scan" ~> (pc = "done" /\ match = Null))

\* a scan has ended after two matches and two links, in a text with a third
\* occurrence of snippet( that is no match of its own
C14_Witness ==
  /\ pc = "done"
  /\ match = Null
  /\ Len(matches) = 2
  /\ Len(links) = 2
  /\ Occurrences(text) = 3

====
